---- MODULE Spec2Model ----
(***************************************************************************)
(* The re3data API notebooks as a state machine.                           *)
(*                                                                         *)
(* A run of a notebook ("Run All") is: one GET of the listing endpoint,    *)
(* the XPath //@href over its body, then one loop iteration per detail     *)
(* reference (GET, parse, extract, append), then the assembly of the       *)
(* table.  The Python notebooks are                                        *)
(*   uc1py  examples-python/01_re3data_API_medical_research_community      *)
(*   uc3py  use case 3, Python (API information), unnamed/part_000         *)
(* and the R notebooks (uc1r, uc2r, uc3r) are modelled further down.       *)
(* None of the cells catches an exception, so an exception raised by the   *)
(* HTTP client, the parser, a list index or pandas ends the run (pc =      *)
(* "raised") and the cells after it are not executed.                      *)
(*                                                                         *)
(* The responses of the remote service are inputs: every GET draws its     *)
(* response from a bounded pool of documents.                              *)
(***************************************************************************)
EXTENDS Integers, Sequences, FiniteSets, TLC

VARIABLES
    pipeline,         \* which notebook runs
    pc,               \* "listing", "loop", "assemble", "done" (table assembled), "raised"
    exc,              \* the exception that ended the run, or "none"
    listing_status,   \* "none" before the listing GET, then "ok" / "non2xx" / "transport"
    urls,             \* the detail references, tree.xpath("//@href")
    i,                \* number of loop iterations completed
    docs,             \* history: the response given to the GET of iteration k
    results,          \* the Python list `results`
    repository_info,  \* the variable `repository_info`: unbound, a dictionary or a table
    categories,       \* categories of the api_type column after astype("category")
    requests,         \* history: the listing positions of the detail GETs, in order
    results_list,     \* the loop variable `results_list` of the R notebooks
    plot              \* the bar chart of the last cell, or NoPlot

vars == <<pipeline, pc, exc, listing_status, urls, i, docs, results,
          repository_info, categories, requests, results_list, plot>>

----------------------------------------------------------------------------
(* Bounds of the explored inputs. *)

\* longest listing (number of detail references)
MaxUrls == 3
\* most <api> elements in one document
MaxApi == 3
\* most rows of a table: a run whose table would be larger is not explored
MaxRows == 3
\* the runs that are explored for the bar chart: longest listing, most
\* <api> elements in one document, most rows of the table
MaxChartUrls == 2
MaxChartApi == 4
MaxChartRows == 5

----------------------------------------------------------------------------
(* Values. *)

\* Python None (absent single value) and pandas NaN (exploded empty list)
None == "None"
NaN == "NaN"

\* re3data identifiers, in ascending ordinal order of the strings (an
\* upper-case letter comes before every lower-case letter)
IdValues == <<"R3d2", "r3d1">>
Refs == {IdValues[n] : n \in 1..Len(IdValues)}

\* text of the k-th <api> element of a document (endpoints are distinct)
EndPoint(k) == <<"a", "b", "c", "d", "e", "f">>[k]
ApiTypes == {"REST", "OAI-PMH"}

Max(a, b) == IF a >= b THEN a ELSE b

RECURSIVE SeqsUpTo(_, _)
\* all sequences over S of length <= n
SeqsUpTo(S, n) ==
    IF n = 0 THEN {<<>>}
    ELSE LET shorter == SeqsUpTo(S, n - 1)
         IN  shorter \cup {Append(s, x) : s \in {t \in shorter : Len(t) = n - 1}, x \in S}

----------------------------------------------------------------------------
(* The remote service's responses.                                         *)
(*                                                                         *)
(* A detail response is                                                    *)
(*   status  "ok"         a body the HTML parser accepts                   *)
(*           "transport"  no response: client.get raises                   *)
(*           "malformed"  an empty body: html.fromstring raises            *)
(*   ids, names, urls, descr   the text nodes of the re3data.orgIdentifier,*)
(*           repositoryName, repositoryURL and description elements, in    *)
(*           document order                                                *)
(*   apis    the <api> elements in document order, each with its text and  *)
(*           its apiType attribute (None when the element has none)        *)
(* A response with a non-success status is a body without the elements.    *)

Doc(st, ids, names, us, descr, apis) ==
    [status |-> st, ids |-> ids, names |-> names, urls |-> us,
     descr |-> descr, apis |-> apis]

TransportFailure == Doc("transport", <<>>, <<>>, <<>>, <<>>, <<>>)
MalformedBody == Doc("malformed", <<>>, <<>>, <<>>, <<>>, <<>>)

\* an <api> element with its text and its apiType attribute
CompleteElems(k) == {[text |-> EndPoint(k), type |-> t] : t \in ApiTypes}

\* also the elements that lack the attribute or the text
AnyElems(k) ==
    CompleteElems(k)
        \cup {[text |-> EndPoint(k), type |-> None]}
        \cup {[text |-> None, type |-> t] : t \in ApiTypes}

\* the k-th <api> element of a document of the given kind
Elems(kind, k) == IF kind = "complete" THEN CompleteElems(k) ELSE AnyElems(k)

RECURSIVE ApiSections(_, _)
\* the sequences of at most n <api> elements, the k-th drawn from Elems(kind, k)
ApiSections(kind, n) ==
    IF n = 0 THEN {<<>>}
    ELSE LET shorter == ApiSections(kind, n - 1)
         IN  shorter \cup {Append(s, e) : s \in {t \in shorter : Len(t) = n - 1},
                                          e \in Elems(kind, n)}

\* Documents that follow the schema (one identifier, one name, one URL, at
\* most one description, complete <api> elements) and the four failures.
\* A notebook's documents vary only in the elements the notebook reads.
SchemaDocs(pl, ref) ==
    IF pl = "uc1py"
    THEN {Doc("ok", <<ref>>, <<"name">>, <<"u1">>, d, <<>>) : d \in {<<>>, <<"d1">>}}
    ELSE {Doc("ok", <<ref>>, <<"name">>, <<"u1">>, <<>>, a) :
              a \in ApiSections("complete", MaxApi)}

FailingDocs(ref) ==
    { TransportFailure, MalformedBody,
      Doc("ok", <<>>, <<"name">>, <<"u1">>, <<>>, <<>>),
      Doc("ok", <<ref>>, <<>>, <<"u1">>, <<>>, <<>>) }

BatchDocs(pl, ref) == SchemaDocs(pl, ref) \cup FailingDocs(ref)

\* Every shape of a single document: elements missing or repeated.
AllDocs(pl, ref) ==
    { TransportFailure, MalformedBody } \cup
    IF pl = "uc1py"
    THEN {Doc("ok", ids, n, u, d, <<>>) :
              ids \in {<<>>, <<ref>>}, n \in {<<>>, <<"name">>},
              u \in {<<>>, <<"u1">>, <<"u1", "u2">>},
              d \in {<<>>, <<"d1">>, <<"d1", "d2">>}}
    ELSE {Doc("ok", ids, n, u, <<>>, a) :
              ids \in {<<>>, <<ref>>}, n \in {<<>>, <<"name">>},
              u \in {<<>>, <<"u1">>, <<"u1", "u2">>},
              a \in ApiSections("any", MaxApi)}

\* documents of use case 3 that follow the schema, for the bar chart
ChartDocs(ref) ==
    {Doc("ok", <<ref>>, <<"name">>, <<"u1">>, <<>>, a) :
         a \in ApiSections("complete", MaxChartApi)}

\* documents that follow the schema, with at most one <api> element
AnsweredDocs(pl, ref) ==
    IF pl = "uc1py"
    THEN SchemaDocs(pl, ref)
    ELSE {Doc("ok", <<ref>>, <<"name">>, <<"u1">>, <<>>, a) :
              a \in ApiSections("complete", 1)}

\* the detail responses of a run: of a batch, of a run for the bar chart,
\* of a run in which every request is answered by a document that follows
\* the schema, or of a single document
DetailResponses(pool, pl, ref) ==
    IF pool = "batch" THEN BatchDocs(pl, ref)
    ELSE IF pool = "chart" THEN ChartDocs(ref)
    ELSE IF pool = "answered" THEN AnsweredDocs(pl, ref)
    ELSE AllDocs(pl, ref)

\* most rows of the table in the runs that are explored; the answered runs
\* are explored in full
RowCap(pool) ==
    IF pool = "chart" THEN MaxChartRows
    ELSE IF pool = "answered" THEN MaxChartUrls * MaxApi
    ELSE MaxRows

----------------------------------------------------------------------------
(* XPath over a parsed document: the matches in document order. *)

RECURSIVE TextsOf(_)
\* //api/text(): the text nodes of the <api> elements
TextsOf(apis) ==
    IF apis = <<>> THEN <<>>
    ELSE LET rest == TextsOf(Tail(apis))
         IN  IF Head(apis).text = None THEN rest ELSE <<Head(apis).text>> \o rest

RECURSIVE AttrsOf(_)
\* //@apitype: the apiType attributes
AttrsOf(apis) ==
    IF apis = <<>> THEN <<>>
    ELSE LET rest == AttrsOf(Tail(apis))
         IN  IF Head(apis).type = None THEN rest ELSE <<Head(apis).type>> \o rest

----------------------------------------------------------------------------
(* extract_repository_info *)

\* use case 1: first match, or None
FirstOrNone(matches) == IF matches # <<>> THEN matches[1] ELSE None

extract_repository_info_uc1(doc) ==
    [re3data_id |-> FirstOrNone(doc.ids),
     name |-> FirstOrNone(doc.names),
     url |-> FirstOrNone(doc.urls),
     description |-> FirstOrNone(doc.descr)]

\* use case 3: xpath(...)[0] raises IndexError on an empty result
RaisesIndexError(doc) == doc.ids = <<>> \/ doc.names = <<>>

\* a dictionary that lacks the name
extract_without_name(doc) ==
    [re3data_id |-> doc.ids[1],
     url |-> doc.urls,
     api |-> TextsOf(doc.apis),
     api_type |-> AttrsOf(doc.apis)]

\* use case 3: identifier and name are first matches, url / api / api_type
\* are the lists of all matches
extract_repository_info_uc3(doc) ==
    [re3data_id |-> doc.ids[1],
     name |-> doc.names[1],
     url |-> doc.urls,
     api |-> TextsOf(doc.apis),
     api_type |-> AttrsOf(doc.apis)]

----------------------------------------------------------------------------
(* The table of use case 3: pandas.DataFrame(results), then                *)
(* .apply(pandas.Series.explode), astype("category"), sort_values.         *)
(*                                                                         *)
(* apply(Series.explode) explodes every column on its own: a list cell     *)
(* becomes one entry per element under the row's index label, an empty     *)
(* list one NaN entry, a scalar stays one entry.  The columns are then     *)
(* put together on the union of their indexes, where a label occurs as     *)
(* often as in the column where it occurs most.  A column whose index is   *)
(* that union is taken as it is; a column whose index has no repeated      *)
(* label is reindexed, its one value repeated on every row of the label;   *)
(* any other column cannot be reindexed: ValueError.                       *)

ScalarCols == {"re3data_id", "name"}
ListCols == {"url", "api", "api_type"}

\* number of entries of the exploded cell
CellLen(rec, c) == IF c \in ListCols THEN Max(1, Len(rec[c])) ELSE 1

\* number of rows the record explodes to
RowLen(rec) == Max(Max(CellLen(rec, "url"), CellLen(rec, "api")), CellLen(rec, "api_type"))

ColAligned(res, c) == \A r \in 1..Len(res) : CellLen(res[r], c) = RowLen(res[r])
ColUnique(res, c) == \A r \in 1..Len(res) : CellLen(res[r], c) = 1

\* "cannot reindex on an axis with duplicate labels"
ExplodeRaises(res) == \E c \in ListCols : ~ColAligned(res, c) /\ ~ColUnique(res, c)

ExplodedCell(res, r, c, k) ==
    IF c \in ScalarCols THEN res[r][c]
    ELSE IF res[r][c] = <<>> THEN NaN
    ELSE IF ColUnique(res, c) THEN res[r][c][1]
    ELSE res[r][c][k]

\* Row k of the rows of index label r.  idx is the index label; src (the
\* listing position of the document) and k are history, not columns.
ExplodedRow(res, r, k) ==
    [idx |-> r, src |-> res[r].src, k |-> k,
     re3data_id |-> ExplodedCell(res, r, "re3data_id", k),
     name |-> ExplodedCell(res, r, "name", k),
     url |-> ExplodedCell(res, r, "url", k),
     api |-> ExplodedCell(res, r, "api", k),
     api_type |-> ExplodedCell(res, r, "api_type", k)]

RECURSIVE ExplodeFrom(_, _)
ExplodeFrom(res, r) ==
    IF r > Len(res) THEN <<>>
    ELSE [k \in 1..RowLen(res[r]) |-> ExplodedRow(res, r, k)] \o ExplodeFrom(res, r + 1)

\* repository_info.apply(pandas.Series.explode), when it does not raise
Explode(res) == ExplodeFrom(res, 1)

RECURSIVE TableRows(_)
\* number of rows of the exploded table
TableRows(res) == IF res = <<>> THEN 0 ELSE RowLen(Head(res)) + TableRows(Tail(res))

\* astype("category") keeps the values; the categories are the distinct
\* values of the column, NaN not being one
Categories(rows) == {rows[j].api_type : j \in 1..Len(rows)} \ {NaN}

\* an order of the identifiers that ignores the case of the letters
CaseInsensitiveRank(id) == CHOOSE n \in 1..2 : <<"r3d1", "R3d2">>[n] = id

\* ordinal order of the identifier strings
IdRank(id) == CHOOSE n \in 1..Len(IdValues) : IdValues[n] = id

\* sort_values(by="re3data_id"): ascending; the default kind (quicksort) is
\* not stable, so rows of equal re3data_id come out in any order
SortValues(rows) ==
    LET n == Len(rows)
        sorted(p) == \A j \in 1..(n - 1) :
                        IdRank(rows[p[j]].re3data_id) <= IdRank(rows[p[j + 1]].re3data_id)
    IN  {[j \in 1..n |-> rows[p[j]]] : p \in {q \in Permutations(1..n) : sorted(q)}}

\* pandas.DataFrame(results) of use case 1: one row per dictionary
FrameUc1(res) ==
    [j \in 1..Len(res) |->
        [idx |-> j, src |-> res[j].src, k |-> 1,
         re3data_id |-> res[j].re3data_id, name |-> res[j].name,
         url |-> res[j].url, description |-> res[j].description]]

\* the values of the variable repository_info
Unbound == [kind |-> "unbound"]
\* no chart drawn yet
NoPlot == [kind |-> "none"]
Dict(rec) == [kind |-> "dict", rec |-> rec]
\* a DataFrame; cells is "lists" before the explode step, "values" after it
DataFrame(rows, cells) == [kind |-> "DataFrame", cells |-> cells, rows |-> rows]

\* pandas.DataFrame(results) of use case 3: one row per dictionary, the
\* cells of url, api and api_type holding the lists
FrameUc3(res) ==
    [j \in 1..Len(res) |->
        [idx |-> j, src |-> res[j].src, k |-> 1,
         re3data_id |-> res[j].re3data_id, name |-> res[j].name,
         url |-> res[j].url, api |-> res[j].api, api_type |-> res[j].api_type]]

----------------------------------------------------------------------------
(* The bar chart of use case 3:                                            *)
(*   seaborn.countplot(x="api_type",                                       *)
(*       data=repository_info.drop_duplicates(subset=["re3data_id",        *)
(*                                                    "api_type"]),        *)
(*       order=repository_info["api_type"].value_counts().index)           *)

\* the values of a row in the columns of the key
KeyOf(row, subset) == [c \in subset |-> row[c]]

RECURSIVE Pick(_, _, _)
\* the rows at the positions of keep, from position j on, in table order
Pick(rows, keep, j) ==
    IF j > Len(rows) THEN <<>>
    ELSE (IF j \in keep THEN <<rows[j]>> ELSE <<>>) \o Pick(rows, keep, j + 1)

\* a table returned as it is
KeepDuplicates(rows, subset) == rows

\* only the last row that repeats the key of an earlier row is dropped
DropLastDuplicate(rows, subset) ==
    LET dup == {j \in 1..Len(rows) :
                   \E h \in 1..(j - 1) : KeyOf(rows[h], subset) = KeyOf(rows[j], subset)}
    IN  IF dup = {} THEN rows
        ELSE Pick(rows, (1..Len(rows)) \ {CHOOSE j \in dup : \A h \in dup : h <= j}, 1)

\* of the rows of one key the last is kept
KeepLastDuplicate(rows, subset) ==
    Pick(rows,
         {j \in 1..Len(rows) :
             \A h \in (j + 1)..Len(rows) : KeyOf(rows[h], subset) # KeyOf(rows[j], subset)},
         1)

\* DataFrame.drop_duplicates(subset=...): keep="first", a row is dropped
\* when an earlier row has the same values in the columns of subset (NaN
\* equal to NaN); the rows kept stay in table order
DropDuplicates(rows, subset) ==
    Pick(rows,
         {j \in 1..Len(rows) :
             \A h \in 1..(j - 1) : KeyOf(rows[h], subset) # KeyOf(rows[j], subset)},
         1)

\* number of rows with the api_type t
CountOf(rows, t) == Cardinality({j \in 1..Len(rows) : rows[j].api_type = t})

\* Series.value_counts().index of the categorical column: the categories
\* by descending number of rows, categories of equal count in any order
ValueCountsIndex(rows, cats) ==
    {o \in [1..Cardinality(cats) -> cats] :
        /\ \A a, b \in DOMAIN o : a # b => o[a] # o[b]
        /\ \A a, b \in DOMAIN o : a < b => CountOf(rows, o[a]) >= CountOf(rows, o[b])}

\* len(repository_info["re3data_id"].unique())
NumRepositories(rows) == Cardinality({rows[j].re3data_id : j \in 1..Len(rows)})

\* the chart: its data, the order of the bars, the height of the bar of
\* every category, and the number in the title
Countplot(data, order, n) ==
    [kind |-> "countplot", data |-> data, order |-> order,
     bars |-> [t \in {order[a] : a \in DOMAIN order} |-> CountOf(data, t)],
     num_repositories |-> n]

\* a chart that could not be drawn
PlotFailed == [kind |-> "failed"]

----------------------------------------------------------------------------
(* The run. *)

Pipelines == {"uc1py", "uc3py"}

Init ==
    /\ pipeline \in Pipelines
    /\ pc = "listing"
    /\ exc = "none"
    /\ listing_status = "none"
    /\ urls = <<>>
    /\ i = 0
    /\ docs = <<>>
    /\ results = <<>>
    /\ repository_info = Unbound
    /\ categories = {}
    /\ requests = <<>>
    /\ results_list = Unbound
    /\ plot = NoPlot

\* an append that skips a record the list already holds
AppendIfNew(res, rec) ==
    IF \E j \in 1..Len(res) :
           \A f \in (DOMAIN rec) \ {"src"} : res[j][f] = rec[f]
    THEN res
    ELSE Append(res, rec)

\* a list insert at the front instead of an append
PrependResult(res, rec) == <<rec>> \o res

\* results.append(record); src, the listing position of the document the
\* record was extracted from, is history and no key of the dictionary
AppendResult(res, rec) == Append(res, rec)

\* a loop that appends every record
KeepEveryRepository(info) == TRUE

\* "filter out repositories with no information on APIs"
KeepRepository(info) == Len(info.api) > 0

\* a loop that ends before the last reference
LeaveLoopEarly(n, us) == IF n >= Len(us) - 1 THEN "assemble" ELSE "loop"

\* where the run goes after the loop has consumed n references
AfterLoop(n, us) == IF n = Len(us) THEN "assemble" ELSE "loop"

Raise(e) == pc' = "raised" /\ exc' = e

\* The listing responses: no response; a success with at most MaxUrls
\* links; a non-success status, whose body holds at most one link.
ListingResponses ==
    {[status |-> "transport", hrefs |-> <<>>]}
        \cup {[status |-> "ok", hrefs |-> h] : h \in SeqsUpTo(Refs, MaxUrls)}
        \cup {[status |-> "non2xx", hrefs |-> h] : h \in SeqsUpTo(Refs, 1)}

\* a success whose listing holds one link
SingleListings == {[status |-> "ok", hrefs |-> <<ref>>] : ref \in Refs}

\* httpx.get(URL, ...); html.fromstring(...).xpath("//@href").  httpx.get
\* raises when there is no response; the status is not looked at.
GetListing(Responses) ==
    /\ pc = "listing"
    /\ \E resp \in Responses :
        /\ listing_status' = resp.status
        /\ IF resp.status = "transport"
           THEN Raise("TransportError") /\ UNCHANGED urls
           ELSE /\ urls' = resp.hrefs
                /\ pc' = AfterLoop(0, resp.hrefs)
                /\ UNCHANGED exc
    /\ UNCHANGED <<pipeline, i, docs, results, repository_info, categories,
                   requests, results_list, plot>>

\* One iteration of the loop of use case 1:
\*   client.get(url); html.fromstring(...); results.append(extract(...))
DetailUc1(pool) ==
    /\ pc = "loop"
    /\ pipeline = "uc1py"
    /\ i < Len(urls)
    /\ Len(results) < MaxRows
    /\ \E doc \in DetailResponses(pool, pipeline, urls[i + 1]) :
        /\ docs' = Append(docs, doc)
        /\ requests' = Append(requests, i + 1)
        /\ CASE doc.status = "transport" ->
                    Raise("TransportError") /\ UNCHANGED <<i, results>>
             [] doc.status = "malformed" ->
                    Raise("ParserError") /\ UNCHANGED <<i, results>>
             [] OTHER ->
                    /\ results' = AppendResult(results,
                           [src |-> i + 1] @@ extract_repository_info_uc1(doc))
                    /\ i' = i + 1
                    /\ pc' = AfterLoop(i + 1, urls)
                    /\ UNCHANGED exc
    /\ UNCHANGED <<pipeline, listing_status, urls, repository_info, categories,
                   results_list, plot>>

\* One iteration of the loop of use case 3:
\*   client.get(url, ...); html.fromstring(...); extract; append if the
\*   api list is not empty
DetailUc3(pool) ==
    /\ pc = "loop"
    /\ pipeline = "uc3py"
    /\ i < Len(urls)
    /\ \E doc \in DetailResponses(pool, pipeline, urls[i + 1]) :
        /\ docs' = Append(docs, doc)
        /\ requests' = Append(requests, i + 1)
        /\ CASE doc.status = "transport" ->
                    Raise("TransportError") /\ UNCHANGED <<i, results, repository_info>>
             [] doc.status = "malformed" ->
                    Raise("ParserError") /\ UNCHANGED <<i, results, repository_info>>
             [] doc.status = "ok" /\ RaisesIndexError(doc) ->
                    Raise("IndexError") /\ UNCHANGED <<i, results, repository_info>>
             [] OTHER ->
                    LET info == extract_repository_info_uc3(doc)
                    IN  /\ repository_info' = Dict(info)
                        /\ results' = IF KeepRepository(info)
                                      THEN AppendResult(results, [src |-> i + 1] @@ info)
                                      ELSE results
                        /\ TableRows(results') <= RowCap(pool)
                        /\ i' = i + 1
                        /\ pc' = AfterLoop(i + 1, urls)
                        /\ UNCHANGED exc
    /\ UNCHANGED <<pipeline, listing_status, urls, categories, results_list, plot>>

\* repository_info = pandas.DataFrame(results), last line of the loop's cell
AssembleUc1 ==
    /\ pc = "assemble"
    /\ pipeline = "uc1py"
    /\ repository_info' = DataFrame(FrameUc1(results), "values")
    /\ pc' = "done"
    /\ UNCHANGED <<pipeline, exc, listing_status, urls, i, docs, results, categories,
                   requests, results_list, plot>>

\* The cell after the loop of use case 3:
\*   repository_info = pandas.DataFrame(results)
\*   repository_info = repository_info.apply(pandas.Series.explode)
\*   repository_info["api_type"] = repository_info["api_type"].astype("category")
\*   repository_info.sort_values(by="re3data_id", inplace=True)
\* A frame made from an empty list has no column: KeyError on "api_type".
AssembleUc3 ==
    /\ pc = "assemble"
    /\ pipeline = "uc3py"
    /\ CASE results = <<>> ->
                /\ repository_info' = DataFrame(<<>>, "values")
                /\ Raise("KeyError")
                /\ UNCHANGED categories
         [] results # <<>> /\ ExplodeRaises(results) ->
                /\ repository_info' = DataFrame(FrameUc3(results), "lists")
                /\ Raise("ValueError")
                /\ UNCHANGED categories
         [] OTHER ->
                /\ \E t \in SortValues(Explode(results)) :
                       repository_info' = DataFrame(t, "values")
                /\ categories' = Categories(Explode(results))
                /\ pc' = "done"
                /\ UNCHANGED exc
    /\ UNCHANGED <<pipeline, listing_status, urls, i, docs, results,
                   requests, results_list, plot>>

\* The last cell of use case 3: the bar chart of the API types.  Without
\* a category there is no bar to draw and to label: the cell raises.
PlotUc3 ==
    /\ pc = "done"
    /\ pipeline = "uc3py"
    /\ plot = NoPlot
    /\ IF categories = {}
       THEN plot' = PlotFailed /\ exc' = "ValueError"
       ELSE /\ \E o \in ValueCountsIndex(repository_info.rows, categories) :
                   plot' = Countplot(DropDuplicates(repository_info.rows,
                                                    {"re3data_id", "api_type"}),
                                     o, NumRepositories(repository_info.rows))
            /\ UNCHANGED exc
    /\ UNCHANGED <<pipeline, pc, listing_status, urls, i, docs, results,
                   repository_info, categories, requests, results_list>>

\* Runs over listings of schema-conformant and failing documents.
Next ==
    \/ GetListing(ListingResponses)
    \/ DetailUc1("batch")
    \/ DetailUc3("batch")
    \/ AssembleUc1
    \/ AssembleUc3
    \/ PlotUc3

Spec == Init /\ [][Next]_vars

\* Runs over one document of any shape.
NextDoc ==
    \/ GetListing(SingleListings)
    \/ DetailUc1("single")
    \/ DetailUc3("single")
    \/ AssembleUc1
    \/ AssembleUc3
    \/ PlotUc3

SpecDoc == Init /\ [][NextDoc]_vars

\* a success whose listing holds at most MaxChartUrls links
ChartListings == {[status |-> "ok", hrefs |-> h] : h \in SeqsUpTo(Refs, MaxChartUrls)}

InitChart == Init /\ pipeline = "uc3py"

\* Runs of use case 3 up to the bar chart, over documents that follow the
\* schema.
NextChart ==
    \/ GetListing(ChartListings)
    \/ DetailUc3("chart")
    \/ AssembleUc3
    \/ PlotUc3

SpecChart == InitChart /\ [][NextChart]_vars

\* Runs in which every request is answered: the listing by a success, each
\* detail request by a document that follows the schema.
NextLive ==
    \/ GetListing(ChartListings)
    \/ DetailUc1("answered")
    \/ DetailUc3("answered")
    \/ AssembleUc1
    \/ AssembleUc3
    \/ PlotUc3

\* The cells of a notebook are run one after the other by one thread of
\* control and every call blocks until it returns: a step that can be
\* taken is taken.
SpecLive == Init /\ [][NextLive]_vars /\ WF_vars(NextLive)

----------------------------------------------------------------------------
(* The R notebooks.                                                        *)
(*   uc1r  use case 1, R (medical research community), unnamed/part_001    *)
(*   uc2r  use case 2, R (certificates by repository type), part_002       *)
(*   uc3r  use case 3, R (API information), unnamed/part_000               *)
(* A character string is a sequence of tokens, "_AND_" being the token of  *)
(* the separator; the empty string is the empty sequence.                  *)

RPipelines == {"uc1r", "uc2r", "uc3r"}

\* R's missing value, and the missing value of a column of strings
NA == "NA"
NAString == <<"NA">>
SEP == "_AND_"

\* the detail reference made from no identifier at all
NoId == "none"

\* a response to an R notebook: the elements of Doc and the text values
\* of the <type> and <certificate> elements
RDoc(st, ids, names, us, descr, apis, types, certs) ==
    [types |-> types, certs |-> certs] @@ Doc(st, ids, names, us, descr, apis)

RTransportFailure == RDoc("transport", <<>>, <<>>, <<>>, <<>>, <<>>, <<>>, <<>>)
RMalformedBody == RDoc("malformed", <<>>, <<>>, <<>>, <<>>, <<>>, <<>>, <<>>)

\* the <type> values and the <certificate> values of a document
TypeLists == {<<>>, <<<<"institutional">>>>, <<<<"institutional">>, <<"other">>>>,
              <<<<"institutional">>, <<"institutional">>>>}
CertLists == {<<>>, <<<<"CoreTrustSeal">>>>}

\* The responses for a reference: no response, a body that is not XML, a
\* document without identifier, and the documents that follow the schema.
\* A notebook's documents vary only in the elements the notebook reads.
RDocs(pl, ref) ==
    {RTransportFailure, RMalformedBody,
     RDoc("ok", <<>>, <<"name">>, <<"u1">>, <<"d1">>, <<>>, <<>>, <<>>)} \cup
    IF ref = NoId THEN {}
    ELSE IF pl = "uc1r"
    THEN {RDoc("ok", <<ref>>, <<"name">>, <<"u1">>, d, <<>>, <<>>, <<>>) :
              d \in {<<>>, <<"d1">>}}
    ELSE IF pl = "uc2r"
    THEN {RDoc("ok", <<ref>>, <<>>, <<>>, <<>>, <<>>, t, c) :
              t \in TypeLists, c \in CertLists}
    ELSE {RDoc("ok", <<ref>>, <<"name">>, <<"u1">>, <<>>, a, <<>>, <<>>) :
              a \in ApiSections("complete", MaxApi)}

RECURSIVE Unique(_)
\* unique(x): the first occurrence of every value, in order
Unique(x) ==
    IF x = <<>> THEN <<>>
    ELSE LET front == Unique(SubSeq(x, 1, Len(x) - 1))
         IN  IF \E h \in 1..Len(front) : front[h] = x[Len(x)]
             THEN front ELSE Append(front, x[Len(x)])

RECURSIVE Paste(_)
\* paste(x, collapse = "_AND_"): "" for no value
Paste(x) ==
    IF x = <<>> THEN <<>>
    ELSE IF Len(x) = 1 THEN x[1]
    ELSE x[1] \o <<SEP>> \o Paste(Tail(x))

\* a string taken as one piece
NoSplit(str) == <<str>>

RECURSIVE Split(_)
\* the pieces of a string between the separators
Split(str) ==
    IF \A h \in 1..Len(str) : str[h] # SEP THEN <<str>>
    ELSE LET p == CHOOSE h \in 1..Len(str) :
                      str[h] = SEP /\ \A g \in 1..(h - 1) : str[g] # SEP
         IN  <<SubSeq(str, 1, p - 1)>> \o Split(SubSeq(str, p + 1, Len(str)))

\* xml_find_first + xml_text: the first match, NA without a match
FirstOrNA(matches) == IF matches # <<>> THEN matches[1] ELSE NA

\* The result of an extraction that is bound to the table: its rows, or
\* the error of rbind / bind_rows
Bound(rows) == [kind |-> "rows", rows |-> rows]
BindError == [kind |-> "error", rows |-> <<>>]

\* use case 1 (R): a list of four character vectors; rbind takes a list
\* whose vectors have one length and adds that many rows
extract_repository_info_uc1r(doc, src) ==
    IF Len(doc.ids) = Len(doc.names) /\ Len(doc.names) = Len(doc.urls)
          /\ Len(doc.urls) = Len(doc.descr)
    THEN {Bound([k \in 1..Len(doc.ids) |->
                   [src |-> src, k |-> k, re3data_ID |-> doc.ids[k],
                    repositoryName |-> doc.names[k], repositoryUrl |-> doc.urls[k],
                    description |-> doc.descr[k]]])}
    ELSE {BindError}

\* use case 2 (R): the identifiers, and the distinct type and certificate
\* values pasted into one string each
extract_repository_info_uc2r(doc, src) ==
    IF Len(doc.ids) = 1
    THEN {Bound(<<[src |-> src, k |-> 1, re3data_ID |-> doc.ids[1],
                   type |-> Paste(Unique(doc.types)),
                   certificate |-> Paste(Unique(doc.certs))]>>)}
    ELSE {BindError}

\* an extraction that gives a document without <api> element one row
extract_info_null_row(doc, src) ==
    IF Len(doc.ids) # 1 THEN {BindError}
    ELSE {Bound([e \in 1..Max(1, Len(doc.apis)) |->
                    [src |-> src, k |-> e, re3data_ID |-> doc.ids[1],
                     repositoryName |-> FirstOrNA(doc.names),
                     repositoryUrl |-> FirstOrNA(doc.urls),
                     api |-> IF doc.apis = <<>> THEN NA ELSE doc.apis[e].text,
                     apiType |-> IF doc.apis = <<>> THEN NA ELSE doc.apis[e].type]])}

\* use case 3 (R): one list per <api> element, with the identifiers, the
\* first name and URL of the element's repository, the element's text
\* and its apiType; map_df binds them.  A list whose identifier vector
\* has not length one is an error or is recycled, as the installed dplyr
\* does; without identifier the recycling gives no row.
extract_info(doc, src) ==
    LET row(e) == [src |-> src, k |-> e, re3data_ID |-> FirstOrNone(doc.ids),
                   repositoryName |-> FirstOrNA(doc.names),
                   repositoryUrl |-> FirstOrNA(doc.urls),
                   api |-> doc.apis[e].text,
                   apiType |-> IF doc.apis[e].type = None THEN NA ELSE doc.apis[e].type]
    IN  IF doc.apis = <<>> THEN {Bound(<<>>)}
        ELSE IF Len(doc.ids) = 1 THEN {Bound([e \in 1..Len(doc.apis) |-> row(e)])}
        ELSE IF doc.ids = <<>> THEN {BindError, Bound(<<>>)}
        ELSE {BindError}

\* mutate_all(na_if, ""): the empty string becomes the missing value
NaIf(str) == IF str = <<>> THEN NAString ELSE str

\* a certificate column that is TRUE in every row
AlwaysCertified(str) == TRUE

\* mutate(certificate = ifelse(is.na(certificate), FALSE, TRUE))
Certified(str) == str # NAString

RECURSIVE SeparateRows(_)
\* separate_rows(type, sep = "_AND_"): one row per piece of the type
\* string, a missing type staying one row
SeparateRows(rows) ==
    IF rows = <<>> THEN <<>>
    ELSE LET r == Head(rows)
             pieces == IF r.type = NAString THEN <<NAString>> ELSE Split(r.type)
         IN  [p \in 1..Len(pieces) |-> [r EXCEPT !.type = pieces[p], !.k = p]]
                 \o SeparateRows(Tail(rows))

\* Step 6 of use case 2
ProcessResults(rows) ==
    SeparateRows([j \in 1..Len(rows) |->
        [rows[j] EXCEPT !.type = NaIf(rows[j].type),
                        !.certificate = Certified(NaIf(rows[j].certificate))]])

InitR ==
    /\ pipeline \in RPipelines
    /\ pc = "listing"
    /\ exc = "none"
    /\ listing_status = "none"
    /\ urls = <<>>
    /\ i = 0
    /\ docs = <<>>
    /\ results = <<>>
    /\ repository_info = Unbound
    /\ categories = {}
    /\ requests = <<>>
    /\ results_list = Unbound
    /\ plot = NoPlot

\* the listing responses of the R notebooks: those of ListingResponses,
\* and a body that is not XML
RListingResponses ==
    ListingResponses \cup {[status |-> "malformed", hrefs |-> <<>>]}

\* paste(prefix, re3data_IDs, sep = ""): one URL per identifier; a vector
\* of no identifier is recycled to "", which gives the one URL of the bare
\* prefix
PasteUrls(ids) == IF ids = <<>> THEN <<NoId>> ELSE ids

\* Step 2: GET of the listing, read_xml, the //@href (use case 1) or the
\* //id pasted to the prefix (use cases 2 and 3).  GET fails without a
\* response and read_xml on a body that is not XML; the status is not
\* looked at.
GetListingR ==
    /\ pc = "listing"
    /\ pipeline \in RPipelines
    /\ \E resp \in RListingResponses :
        /\ listing_status' = resp.status
        /\ CASE resp.status = "transport" -> Raise("http error") /\ UNCHANGED urls
             [] resp.status = "malformed" -> Raise("xml error") /\ UNCHANGED urls
             [] OTHER ->
                    /\ urls' = IF pipeline = "uc1r" THEN resp.hrefs ELSE PasteUrls(resp.hrefs)
                    /\ pc' = "container"
                    /\ UNCHANGED exc
    /\ UNCHANGED <<pipeline, i, docs, results, repository_info, categories,
                   requests, results_list, plot>>

\* where an R run goes after the loop has consumed n references: to step
\* 6 in use case 2
AfterLoopR(pl, n, us) ==
    IF n < Len(us) THEN "loop" ELSE IF pl = "uc2r" THEN "assemble" ELSE "done"

\* Step 4: repository_info <- data.frame(matrix(ncol = .., nrow = 0))
CreateContainer ==
    /\ pc = "container"
    /\ repository_info' = DataFrame(<<>>, "values")
    /\ pc' = AfterLoopR(pipeline, 0, urls)
    /\ UNCHANGED <<pipeline, exc, listing_status, urls, i, docs, results, categories,
                   requests, results_list, plot>>

\* the extraction of the notebook
ExtractR(pl, doc, src) ==
    IF pl = "uc1r" THEN extract_repository_info_uc1r(doc, src)
    ELSE IF pl = "uc2r" THEN extract_repository_info_uc2r(doc, src)
    ELSE extract_info(doc, src)

\* One iteration of the loop of an R notebook:
\*   GET(url); read_xml(...); results_list <- extract...(...);
\*   repository_info <- rbind(repository_info, results_list)
\* (use case 3: only if nrow(results_list) > 0)
DetailR ==
    /\ pc = "loop"
    /\ pipeline \in RPipelines
    /\ i < Len(urls)
    /\ \E doc \in RDocs(pipeline, urls[i + 1]) :
        /\ docs' = Append(docs, doc)
        /\ requests' = Append(requests, i + 1)
        /\ CASE doc.status = "transport" ->
                    Raise("http error") /\ UNCHANGED <<i, repository_info, results_list>>
             [] doc.status = "malformed" ->
                    Raise("xml error") /\ UNCHANGED <<i, repository_info, results_list>>
             [] OTHER ->
                    \E out \in ExtractR(pipeline, doc, i + 1) :
                        /\ results_list' = out
                        /\ IF out.kind = "error"
                           THEN Raise("bind error") /\ UNCHANGED <<i, repository_info>>
                           ELSE /\ repository_info' =
                                       DataFrame(repository_info.rows \o out.rows, "values")
                                /\ Len(repository_info'.rows) <= MaxRows
                                /\ i' = i + 1
                                /\ pc' = AfterLoopR(pipeline, i + 1, urls)
                                /\ UNCHANGED exc
    /\ UNCHANGED <<pipeline, listing_status, urls, results, categories, plot>>

\* Step 6 of use case 2: mutate_all, mutate, separate_rows
ProcessUc2R ==
    /\ pc = "assemble"
    /\ pipeline = "uc2r"
    /\ repository_info' = DataFrame(ProcessResults(repository_info.rows), "values")
    /\ pc' = "done"
    /\ UNCHANGED <<pipeline, exc, listing_status, urls, i, docs, results, categories,
                   requests, results_list, plot>>

\* Runs of the R notebooks.
NextR ==
    \/ GetListingR
    \/ CreateContainer
    \/ DetailR
    \/ ProcessUc2R

SpecR == InitR /\ [][NextR]_vars

----------------------------------------------------------------------------
(* Vocabulary of the properties. *)

Ended == pc \in {"done", "raised"}

\* the rows of the table, when repository_info is a DataFrame
Rows == IF repository_info.kind = "DataFrame" THEN repository_info.rows ELSE <<>>

IsNull(v) == v \in {None, NaN}

\* a detail resource that failed: no response, a body that does not parse,
\* or a document without identifier or name
Failed(doc) == doc.status # "ok" \/ doc.ids = <<>> \/ doc.names = <<>>

\* a row without its index label
Proj(row) == [f \in (DOMAIN row) \ {"idx"} |-> row[f]]

\* the rows the notebook derives from the document at listing position k
DerivedRows(k) ==
    IF pipeline = "uc1py"
    THEN {Proj(FrameUc1(<<[src |-> k] @@ extract_repository_info_uc1(docs[k])>>)[1])}
    ELSE LET rec == [src |-> k] @@ extract_repository_info_uc3(docs[k])
         IN  IF KeepRepository(rec)
             THEN {Proj(Explode(<<rec>>)[j]) : j \in 1..RowLen(rec)}
             ELSE {}

\* value of a list at index k, null beyond its end
Padded(list, k) == IF k <= Len(list) THEN list[k] ELSE NaN

\* C1: for every listing and every choice of failing detail resources the
\* run ends with a table that holds exactly the rows derived from the
\* documents that were fetched and parsed successfully, no more and no
\* fewer (so the row count is the sum of their row counts).
C1_TableOfSuccessfulDocs ==
    (Ended /\ listing_status = "ok") =>
        /\ repository_info.kind = "DataFrame"
        /\ Cardinality({Proj(Rows[j]) : j \in 1..Len(Rows)}) = Len(Rows)
        /\ {Proj(Rows[j]) : j \in 1..Len(Rows)}
              = UNION {DerivedRows(k) : k \in {n \in 1..Len(docs) : ~Failed(docs[n])}}

\* C2: a failed detail resource is skipped: every reference of the listing
\* is still fetched, the run ends with a table, and the table has no row
\* of a failed resource.
C2_FailureIsSkipped ==
    (Ended /\ listing_status = "ok" /\ \E k \in 1..Len(docs) : Failed(docs[k])) =>
        /\ Len(docs) = Len(urls)
        /\ pc = "done"
        /\ \A j \in 1..Len(Rows) : ~Failed(docs[Rows[j].src])

\* C3 as stated: in the assembled table the rows of listing position i
\* precede the rows of listing position j whenever i < j.  (Stated for
\* rows of different re3data_id, whose order the sort leaves no choice
\* about.)
C3_TableInListingOrder ==
    pc = "done" =>
        \A a, b \in 1..Len(Rows) :
            (a < b /\ Rows[a].re3data_id # Rows[b].re3data_id) => Rows[a].src <= Rows[b].src

\* C3 as amended: the records are appended to `results` in listing order
\* (the record of position i precedes that of position j for i < j), and
\* the table of use case 1 keeps that order; the table of use case 3 is
\* sorted by re3data_id and is in ascending order of re3data_id instead.
C3_AppendedInListingOrder ==
    /\ \A a, b \in 1..Len(results) : a < b => results[a].src < results[b].src
    /\ (pc = "done" /\ pipeline = "uc1py") =>
           \A a, b \in 1..Len(Rows) : a < b => Rows[a].src < Rows[b].src
    /\ (pc = "done" /\ pipeline = "uc3py") =>
           \A a, b \in 1..Len(Rows) :
               a < b => IdRank(Rows[a].re3data_id) <= IdRank(Rows[b].re3data_id)

\* two listed documents both gave rows and the sort put a row of the later
\* one before a row of the earlier one
C3_Witness ==
    /\ pc = "done"
    /\ pipeline = "uc3py"
    /\ Len(results) >= 2
    /\ \E a, b \in 1..Len(Rows) :
           a < b /\ Rows[a].src > Rows[b].src /\ Rows[a].re3data_id # Rows[b].re3data_id

\* the document of a run over a single document
TheDoc == docs[1]

\* the <api> elements all have a text and an apiType attribute
NoRaggedPairing(doc) ==
    \A e \in 1..Len(doc.apis) : doc.apis[e].text # None /\ doc.apis[e].type # None

\* C4: a document with k >= 1 <api> elements and no ragged pairing gives
\* exactly k rows, all with the document's identifier, name and (first)
\* URL, one row per element.
C4_KRecordsPerDocument ==
    (Ended /\ pipeline = "uc3py" /\ Len(docs) = 1 /\ ~Failed(TheDoc)
       /\ Len(TheDoc.apis) >= 1 /\ NoRaggedPairing(TheDoc)) =>
        /\ pc = "done"
        /\ Len(Rows) = Len(TheDoc.apis)
        /\ \A j \in 1..Len(Rows) :
              /\ Rows[j].re3data_id = TheDoc.ids[1]
              /\ Rows[j].name = TheDoc.names[1]
              /\ Rows[j].url = IF TheDoc.urls = <<>> THEN NaN ELSE TheDoc.urls[1]
        /\ \A e \in 1..Len(TheDoc.apis) :
              \E j \in 1..Len(Rows) :
                  Rows[j].api = TheDoc.apis[e].text /\ Rows[j].api_type = TheDoc.apis[e].type

\* C5 as stated: a document without <api> elements gives exactly one row
\* of the API table, with api and api_type null.
C5_OneNullRow ==
    (pc = "done" /\ pipeline = "uc3py") =>
        \A k \in 1..Len(docs) :
            (~Failed(docs[k]) /\ docs[k].apis = <<>>) =>
                /\ Cardinality({j \in 1..Len(Rows) : Rows[j].src = k}) = 1
                /\ \A j \in 1..Len(Rows) :
                      Rows[j].src = k => Rows[j].api = NaN /\ Rows[j].api_type = NaN

\* C5 as amended (use case 3, Python): for a document without <api>
\* elements the extractor returns one record, whose api and api_type are
\* the empty list; the loop's filter drops it, so the document adds no
\* record to `results` and no row to the table.
C5_EmptyRecordIsFiltered ==
    pipeline = "uc3py" =>
        \A k \in 1..i :
            docs[k].apis = <<>> =>
                /\ extract_repository_info_uc3(docs[k]).api = <<>>
                /\ extract_repository_info_uc3(docs[k]).api_type = <<>>
                /\ (k = i /\ pc \in {"loop", "assemble"}) =>
                       repository_info = Dict(extract_repository_info_uc3(docs[k]))
                /\ \A j \in 1..Len(results) : results[j].src # k
                /\ \A j \in 1..Len(Rows) : Rows[j].src # k

\* a table was made in a run that fetched a document without <api> elements
C5_Witness ==
    /\ pc = "done"
    /\ pipeline = "uc3py"
    /\ \E k \in 1..Len(docs) : docs[k].apis = <<>>

\* null for an absent text or attribute
OrNull(v) == IF v = None THEN NaN ELSE v

\* C6: in every row the api value and the api_type value are those of one
\* and the same <api> element of the document.
C6_PairedByElement ==
    (pc = "done" /\ pipeline = "uc3py") =>
        \A j \in 1..Len(Rows) :
            \E e \in 1..Len(docs[Rows[j].src].apis) :
                /\ Rows[j].api = OrNull(docs[Rows[j].src].apis[e].text)
                /\ Rows[j].api_type = OrNull(docs[Rows[j].src].apis[e].type)

\* C7: a document whose api and api_type lists differ in length (the api
\* list not being empty) gives max(length) rows, the shorter list padded
\* with null, and the run goes on to a table.
C7_RaggedIsPadded ==
    (Ended /\ pipeline = "uc3py" /\ Len(docs) = 1 /\ ~Failed(TheDoc)
       /\ TextsOf(TheDoc.apis) # <<>>
       /\ Len(TextsOf(TheDoc.apis)) # Len(AttrsOf(TheDoc.apis))) =>
        LET api == TextsOf(TheDoc.apis)
            api_type == AttrsOf(TheDoc.apis)
            n == Max(Len(api), Len(api_type))
        IN  /\ pc = "done"
            /\ Len(Rows) = n
            /\ \A k \in 1..n :
                  \E j \in 1..Len(Rows) :
                      Rows[j].api = Padded(api, k) /\ Rows[j].api_type = Padded(api_type, k)

\* C8: every row of the table has a non-null id, the identifier of the
\* document it was derived from.
C8_RowsCarryId ==
    \A j \in 1..Len(Rows) :
        /\ ~IsNull(Rows[j].re3data_id)
        /\ docs[Rows[j].src].ids # <<>>
        /\ Rows[j].re3data_id = docs[Rows[j].src].ids[1]

\* C9: a document without identifier or without name gives no record, and
\* no record has a null id or name.
C9_MissingRequiredField ==
    /\ \A j \in 1..Len(results) :
          ~IsNull(results[j].re3data_id) /\ ~IsNull(results[j].name)
    /\ \A k \in 1..Len(docs) :
          (docs[k].status = "ok" /\ (docs[k].ids = <<>> \/ docs[k].names = <<>>)) =>
              \A j \in 1..Len(results) : results[j].src # k

\* the cell is the first match, or null when there is none
FirstMatchOrNull(cell, matches) ==
    IF matches = <<>> THEN IsNull(cell) ELSE cell = matches[1]

\* C10: url and description are the first match in document order, or
\* null when the document has none, in every row.
C10_SingleValuedFirstMatch ==
    pc = "done" =>
        \A j \in 1..Len(Rows) :
            /\ FirstMatchOrNull(Rows[j].url, docs[Rows[j].src].urls)
            /\ pipeline = "uc1py" =>
                   FirstMatchOrNull(Rows[j].description, docs[Rows[j].src].descr)

----------------------------------------------------------------------------
(* Deduplication for the chart. *)

\* the chart has been drawn
Plotted == plot.kind = "countplot"

\* the distinct api_type values of the table's rows of one repository
TypesOf(id) == {Rows[j].api_type : j \in {h \in 1..Len(Rows) : Rows[h].re3data_id = id}}

\* C11: in the data of the chart (the table deduplicated by re3data_id and
\* api_type) every (re3data_id, api_type) pair of the table occurs in
\* exactly one row, and a repository has no more rows than it has distinct
\* api_type values in the table.
C11_OncePerRepositoryAndType ==
    Plotted =>
        /\ \A j \in 1..Len(Rows) :
              Cardinality({h \in 1..Len(plot.data) :
                  /\ plot.data[h].re3data_id = Rows[j].re3data_id
                  /\ plot.data[h].api_type = Rows[j].api_type}) = 1
        /\ \A h \in 1..Len(plot.data) : \E j \in 1..Len(Rows) : Rows[j] = plot.data[h]
        /\ \A id \in Refs :
              Cardinality({h \in 1..Len(plot.data) : plot.data[h].re3data_id = id})
                  <= Cardinality(TypesOf(id))

\* a repository offers one API type at two endpoints and has one row in
\* the data of the chart
C11_Witness ==
    /\ Plotted
    /\ \E a, b \in 1..Len(Rows) :
           /\ a # b
           /\ Rows[a].re3data_id = Rows[b].re3data_id
           /\ Rows[a].api_type = Rows[b].api_type
           /\ Rows[a].api # Rows[b].api
           /\ Cardinality({h \in 1..Len(plot.data) :
                  /\ plot.data[h].re3data_id = Rows[a].re3data_id
                  /\ plot.data[h].api_type = Rows[a].api_type}) = 1

\* the columns of the assembled table
Columns == IF pipeline = "uc1py"
           THEN {"re3data_id", "name", "url", "description"}
           ELSE {"re3data_id", "name", "url", "api", "api_type"}

\* an assembled table, its cells holding values
Assembled == pc = "done" /\ repository_info.kind = "DataFrame"

----------------------------------------------------------------------------
(* The requests of a run. *)

\* number of GET requests issued for the reference at listing position k
Gets(k) == Cardinality({r \in 1..Len(requests) : requests[r] = k})

\* C13: no reference of the listing is requested more than once, the
\* requests follow the listing order, a request that failed is not
\* repeated, and when the loop has completed every listing position has
\* been requested exactly once (a reference listed twice is requested
\* once per occurrence).
C13_FetchedExactlyOnce ==
    /\ \A k \in 1..Len(requests) : requests[k] = k
    /\ Len(requests) <= Len(urls)
    /\ \A k \in 1..Len(urls) : Gets(k) <= 1
    /\ pc = "raised" /\ docs # <<>> => Gets(Len(docs)) = 1
    /\ pc \in {"assemble", "done"} => \A k \in 1..Len(urls) : Gets(k) = 1

\* a completed run over a listing that names one reference twice: two
\* requests for it
C13_Witness ==
    /\ pc = "done"
    /\ \E a, b \in 1..Len(urls) : a < b /\ urls[a] = urls[b] /\ Gets(a) = 1 /\ Gets(b) = 1

\* C14: a run whose listing holds no reference issues no detail request
\* and ends normally with an empty table.
C14_EmptyListingEmptyTable ==
    (Ended /\ listing_status = "ok" /\ urls = <<>>) =>
        /\ requests = <<>>
        /\ pc = "done"
        /\ exc = "none"
        /\ repository_info.kind = "DataFrame"
        /\ Rows = <<>>

\* C15: after a listing request that ended in a transport error or in a
\* non-success status the run is aborted: no reference is taken from the
\* body and no detail request is issued.
C15_ListingFailureAborts ==
    listing_status \in {"transport", "non2xx"} =>
        /\ urls = <<>>
        /\ requests = <<>>
        /\ pc = "raised"

\* C16: a document that fails (no response, malformed body, no identifier
\* or name) raises no exception out of the run: the run goes on to the
\* table and ends without an exception.
C16_FailureRecordedNotRaised ==
    \A k \in 1..Len(docs) :
        Failed(docs[k]) => (pc # "raised" /\ exc = "none")

----------------------------------------------------------------------------
(* Whole records. *)

\* the records appended for the document at listing position k
RecordsOf(k) == {j \in 1..Len(results) : results[j].src = k}

\* the rows of the table derived from the document at listing position k
RowsOf(k) == {j \in 1..Len(Rows) : Rows[j].src = k}

\* C17: every appended record and every row of the table has every column
\* of the field map; a document either has its record appended or has
\* none (none when its extraction raised), and in the assembled table it
\* has all the rows of its record or no row.
C17_NoPartialRecord ==
    /\ \A j \in 1..Len(results) : DOMAIN results[j] = Columns \cup {"src"}
    /\ \A j \in 1..Len(Rows) : DOMAIN Rows[j] = Columns \cup {"idx", "src", "k"}
    /\ \A k \in 1..Len(docs) :
          /\ Cardinality(RecordsOf(k)) <= 1
          /\ (pc = "raised" /\ k > i) => RecordsOf(k) = {}
          /\ Assembled =>
                 Cardinality(RowsOf(k)) =
                     IF RecordsOf(k) = {} THEN 0
                     ELSE IF pipeline = "uc1py" THEN 1
                     ELSE RowLen(results[CHOOSE j \in RecordsOf(k) : TRUE])

\* the extraction of a document raised after its identifier was found (it
\* has no name), a record of an earlier document being in the results
C17_Witness ==
    /\ pc = "raised"
    /\ exc = "IndexError"
    /\ docs[Len(docs)].ids # <<>>
    /\ results # <<>>
    /\ RecordsOf(Len(docs)) = {}

----------------------------------------------------------------------------
(* Row count of the API table. *)

RECURSIVE SumOver(_, _, _)
\* sum of f[k] for k in lo..hi
SumOver(f, lo, hi) == IF lo > hi THEN 0 ELSE f[lo] + SumOver(f, lo + 1, hi)

\* the table of use case 3 has been assembled
ApiTable == Assembled /\ pipeline = "uc3py"

----------------------------------------------------------------------------
(* Extractor and driver of use case 3. *)

\* a parsed document with identifier and name and without <api> element
NoApiDoc(doc) ==
    doc.status = "ok" /\ Len(doc.ids) = 1 /\ doc.names # <<>> /\ doc.apis = <<>>

\* C19 as stated: the extractor reports every parsed document: the
\* extraction of a document without <api> element gives a record.
C19_ExtractorReportsEveryDocument ==
    (pipeline = "uc3r" /\ pc \in {"loop", "done"} /\ i >= 1 /\ NoApiDoc(docs[i])) =>
        (results_list.kind = "rows" /\ results_list.rows # <<>>)

\* C19 as amended: for a document without <api> element the Python
\* extractor returns one record, with the identifier and the name and
\* with empty api and api_type lists, and the driver's predicate
\* len(api) > 0 rejects it; the R extractor extract_info returns no row
\* at all, so the document has no row in the table whatever the driver's
\* predicate nrow > 0 does.
C19_PythonReportsRDrops ==
    pipeline = "uc3r" =>
        \A k \in 1..i :
            NoApiDoc(docs[k]) =>
                /\ extract_repository_info_uc3(docs[k]).re3data_id = docs[k].ids[1]
                /\ extract_repository_info_uc3(docs[k]).name = docs[k].names[1]
                /\ extract_repository_info_uc3(docs[k]).api = <<>>
                /\ extract_repository_info_uc3(docs[k]).api_type = <<>>
                /\ ~KeepRepository(extract_repository_info_uc3(docs[k]))
                /\ extract_info(docs[k], k) = {Bound(<<>>)}
                /\ k = i => results_list = Bound(<<>>)
                /\ RowsOf(k) = {}

\* an R run ended with a table that has rows, and none for a listed
\* document without <api> element
C19_Witness ==
    /\ pipeline = "uc3r"
    /\ pc = "done"
    /\ Rows # <<>>
    /\ \E k \in 1..Len(docs) : NoApiDoc(docs[k]) /\ RowsOf(k) = {}

----------------------------------------------------------------------------
(* Certificates by repository type (use case 2). *)

\* the processed table of use case 2
CertificateTable == pipeline = "uc2r" /\ pc = "done"

\* C20: in the processed table of use case 2 every row of a repository
\* has certificate = TRUE exactly if the repository's document has a
\* certificate entry, the same value in all rows of the repository; the
\* repository has one row per distinct type of its document (one row
\* with a missing type when it has none).
C20_CertificateByType ==
    CertificateTable =>
        /\ \A j \in 1..Len(Rows) :
              Rows[j].certificate = (docs[Rows[j].src].certs # <<>>)
        /\ \A k \in 1..Len(docs) :
              LET types == Unique(docs[k].types)
              IN  /\ Cardinality(RowsOf(k)) = Max(1, Len(types))
                  /\ \A t \in 1..Len(types) :
                        \E j \in RowsOf(k) : Rows[j].type = types[t]
                  /\ types = <<>> => \A j \in RowsOf(k) : Rows[j].type = NAString

\* a document with the types institutional and other and no certificate:
\* two rows, one per type, both with certificate = FALSE
C20_Witness ==
    /\ CertificateTable
    /\ \E k \in 1..Len(docs) :
           /\ docs[k].types = <<<<"institutional">>, <<"other">>>>
           /\ docs[k].certs = <<>>
           /\ Cardinality(RowsOf(k)) = 2
           /\ \A j \in RowsOf(k) : Rows[j].certificate = FALSE
           /\ {Rows[j].type : j \in RowsOf(k)} = {<<"institutional">>, <<"other">>}

----------------------------------------------------------------------------
(* The order of the bars. *)

\* the number on the bar of the type t: its rows in the deduplicated data
\* (one per repository)
OncePerRepositoryCount(t) == plot.bars[t]

\* C21: in the chart the API types are in descending order of the count
\* on their bars, the count of repositories per type.  (Stated for types
\* with different numbers of rows in the table, whose order value_counts
\* leaves no choice about.)
C21_BarsInDescendingOrder ==
    Plotted =>
        \A a, b \in DOMAIN plot.order :
            (a < b /\ CountOf(Rows, plot.order[a]) # CountOf(Rows, plot.order[b])) =>
                OncePerRepositoryCount(plot.order[a]) >= OncePerRepositoryCount(plot.order[b])

\* the identifiers of the listed documents that have an <api> element
RepositoriesWithApi ==
    {docs[k].ids[1] : k \in {n \in 1..Len(docs) : docs[n].ids # <<>> /\ docs[n].apis # <<>>}}

\* C22: every row of the API table has a non-null api value and is the
\* row of a document with an <api> element, and the number of
\* repositories in the chart's title is the number of distinct listed
\* repositories whose document has an <api> element.
C22_OnlyRepositoriesWithApi ==
    /\ ApiTable =>
           \A j \in 1..Len(Rows) :
               ~IsNull(Rows[j].api) /\ docs[Rows[j].src].apis # <<>>
    /\ Plotted => plot.num_repositories = Cardinality(RepositoriesWithApi)

\* the chart of a run over two repositories, one of them without <api>
\* element: the title counts one repository
C22_Witness ==
    /\ Plotted
    /\ plot.num_repositories = 1
    /\ \E a, b \in 1..Len(docs) :
           /\ docs[a].ids # docs[b].ids
           /\ docs[a].apis = <<>>
           /\ docs[b].apis # <<>>

----------------------------------------------------------------------------
(* The sort of the API table. *)

\* the code points of the characters of an identifier
CodePoints(id) ==
    CASE id = "R3d2" -> <<82, 51, 100, 50>>
      [] id = "r3d1" -> <<114, 51, 100, 49>>

RECURSIVE LexLeq(_, _)
\* lexicographic order of two sequences of code points
LexLeq(a, b) ==
    IF a = <<>> THEN TRUE
    ELSE IF b = <<>> THEN FALSE
    ELSE IF Head(a) # Head(b) THEN Head(a) < Head(b)
    ELSE LexLeq(Tail(a), Tail(b))

\* case-sensitive ordinal comparison of two identifiers
OrdinalLeq(a, b) == LexLeq(CodePoints(a), CodePoints(b))

\* number of occurrences of a row in a table
Occurrences(rows, r) == Cardinality({j \in 1..Len(rows) : rows[j] = r})

\* C23: the rows of the assembled API table are in ascending ordinal
\* (case-sensitive) order of re3data_id, and the table is a permutation of
\* the exploded table before the sort: every row occurs as often as
\* before, unchanged, with its own api and api_type.
C23_SortedPermutation ==
    ApiTable =>
        /\ \A j \in 1..(Len(Rows) - 1) :
              OrdinalLeq(Rows[j].re3data_id, Rows[j + 1].re3data_id)
        /\ Len(Rows) = Len(Explode(results))
        /\ \A j \in 1..Len(Rows) :
              Occurrences(Rows, Rows[j]) = Occurrences(Explode(results), Rows[j])

\* a table that the sort reordered, a row of an identifier that begins
\* with an upper-case letter coming first
C23_Witness ==
    /\ ApiTable
    /\ Rows # Explode(results)
    /\ Rows[1].re3data_id = "R3d2"
    /\ Rows[Len(Rows)].re3data_id = "r3d1"

----------------------------------------------------------------------------
(* Stability of the deduplication. *)

\* the position in the table of the first row with the key of row r
FirstWithKey(rows, r, K) ==
    CHOOSE j \in 1..Len(rows) :
        /\ KeyOf(rows[j], K) = KeyOf(r, K)
        /\ \A h \in 1..(j - 1) : KeyOf(rows[h], K) # KeyOf(r, K)

\* d is made of the first row of every key of the table, in table order
FirstRowsInOrder(d, rows, K) ==
    /\ \A h \in 1..Len(d) : d[h] = rows[FirstWithKey(rows, d[h], K)]
    /\ \A g, h \in 1..Len(d) :
          g < h => FirstWithKey(rows, d[g], K) < FirstWithKey(rows, d[h], K)
    /\ \A j \in 1..Len(rows) : \E h \in 1..Len(d) : KeyOf(d[h], K) = KeyOf(rows[j], K)

\* C24: the deduplication of an assembled table by a key (any non-empty
\* set of columns) is the subsequence of the table made of the first row
\* of every distinct key, in the order of the table; so is the data of
\* the chart for the key (re3data_id, api_type).
C24_DedupStable ==
    /\ (Assembled /\ plot = NoPlot) =>
           \A K \in (SUBSET Columns) \ {{}} :
               FirstRowsInOrder(DropDuplicates(Rows, K), Rows, K)
    /\ Plotted => FirstRowsInOrder(plot.data, Rows, {"re3data_id", "api_type"})

\* a chart whose data is the first and the third row of a table of three
\* rows, the second row repeating the key of the first
C24_Witness ==
    /\ Plotted
    /\ Len(Rows) = 3
    /\ plot.data = <<Rows[1], Rows[3]>>

----------------------------------------------------------------------------
(* Pasting and separating the types (use case 2). *)

\* no type value of the document contains the separator
SeparatorFree(doc) ==
    \A t \in 1..Len(doc.types) : \A h \in 1..Len(doc.types[t]) : doc.types[t][h] # SEP

\* the types of the rows of the document at listing position k, in table
\* order
TypesInTable(k) ==
    LET rs == SelectSeq(Rows, LAMBDA r : r.src = k)
    IN  [h \in 1..Len(rs) |-> rs[h].type]

\* C25 as stated: a document whose type values do not contain the
\* separator has exactly one row per distinct type value, in
\* first-occurrence order, each with the document's identifier.
C25_RowPerDistinctType ==
    CertificateTable =>
        \A k \in 1..Len(docs) :
            SeparatorFree(docs[k]) =>
                /\ TypesInTable(k) = Unique(docs[k].types)
                /\ \A j \in RowsOf(k) : Rows[j].re3data_ID = docs[k].ids[1]

\* C25 as amended: a document with at least one type value, none
\* containing the separator, has exactly one row per distinct type
\* value, in first-occurrence order, each with the document's
\* identifier; a document without type value has exactly one row, whose
\* type is missing.
C25_RowPerDistinctTypeOrMissing ==
    CertificateTable =>
        \A k \in 1..Len(docs) :
            SeparatorFree(docs[k]) =>
                /\ TypesInTable(k) =
                       IF docs[k].types = <<>> THEN <<NAString>> ELSE Unique(docs[k].types)
                /\ \A j \in RowsOf(k) : Rows[j].re3data_ID = docs[k].ids[1]

\* the table of a run over a document with the types institutional and
\* other, in this order, and over a document without type
C25_Witness ==
    /\ CertificateTable
    /\ \E k \in 1..Len(docs) :
           TypesInTable(k) = <<<<"institutional">>, <<"other">>>>
    /\ \E k \in 1..Len(docs) :
           docs[k].types = <<>> /\ TypesInTable(k) = <<NAString>>

----------------------------------------------------------------------------
(* The Python and the R notebook of use case 3 on one document. *)

\* a missing value of either language
Null(v) == IF v \in {None, NaN, NA} THEN "null" ELSE v

\* the (id, name, url, api, api_type) rows of the Python table, none when
\* no table was assembled
PythonRows ==
    IF ApiTable
    THEN {<<Null(Rows[j].re3data_id), Null(Rows[j].name), Null(Rows[j].url),
            Null(Rows[j].api), Null(Rows[j].api_type)>> : j \in 1..Len(Rows)}
    ELSE {}

\* the rows the R notebook binds for the same document, none when the
\* binding fails
RRows(out) ==
    IF out.kind # "rows" THEN {} ELSE
    {<<Null(out.rows[j].re3data_ID), Null(out.rows[j].repositoryName),
       Null(out.rows[j].repositoryUrl), Null(out.rows[j].api),
       Null(out.rows[j].apiType)>> : j \in 1..Len(out.rows)}

\* C26: for a document in which every <api> element has a text and an
\* apiType, the Python notebook and the R notebook give the same set of
\* (id, name, url, api, api_type) rows.
C26_PythonEqualsR ==
    (Ended /\ pipeline = "uc3py" /\ Len(docs) = 1 /\ TheDoc.status = "ok"
       /\ NoRaggedPairing(TheDoc)) =>
        \A out \in extract_info(TheDoc, 1) :
            RRows(out) = PythonRows

----------------------------------------------------------------------------
(* The accumulator of the loop. *)

\* s is t cut after its first Len(s) members
IsPrefix(s, t) == Len(s) <= Len(t) /\ s = SubSeq(t, 1, Len(s))

\* C27: an iteration of the loop of a Python notebook leaves the records
\* appended by earlier iterations where and as they are: the list after
\* the iteration starts with the list before it.
C27_AppendOnly == [][pc = "loop" => IsPrefix(results, results')]_vars

\* an iteration has appended a record behind another one
C27_Witness == pc \in {"loop", "assemble"} /\ Len(results) >= 2

\* the same for the data frame the R notebooks bind the rows to
C27_AppendOnlyR ==
    [][pc = "loop" => IsPrefix(repository_info.rows, repository_info'.rows)]_vars

----------------------------------------------------------------------------
(* The table of use case 1. *)

\* C28: when the run of the Python notebook of use case 1 has fetched and
\* parsed every document, the table has one row per member of the listing
\* (a reference listed twice gives two rows), and row j holds the record
\* extracted from the document of the j-th reference.
C28_RowPerListingElement ==
    (pc = "done" /\ pipeline = "uc1py") =>
        /\ Len(Rows) = Len(urls)
        /\ Len(docs) = Len(urls)
        /\ \A j \in 1..Len(Rows) :
              /\ requests[j] = j
              /\ Rows[j].src = j
              /\ \A f \in DOMAIN extract_repository_info_uc1(docs[j]) :
                    Rows[j][f] = extract_repository_info_uc1(docs[j])[f]

\* a completed run over a listing that names one reference twice, with
\* the same document both times: two equal rows
C28_Witness ==
    /\ pc = "done"
    /\ pipeline = "uc1py"
    /\ \E a, b \in 1..Len(urls) :
          a < b /\ urls[a] = urls[b] /\ docs[a] = docs[b] /\ Len(Rows) = Len(urls)

----------------------------------------------------------------------------
(* Termination of a run in which every request is answered. *)

\* every request made so far has been answered and processed, and the
\* requests follow the listing: no request is made while one is open
OneRequestAtATime ==
    /\ Len(docs) = Len(requests)
    /\ \A k \in 1..Len(requests) : requests[k] = k

\* C29: a run in which every request returns a response terminates: the
\* loop makes Len(urls) iterations, one request at a time, and then the
\* table is assembled.
C29_TerminatesWithTable ==
    /\ []OneRequestAtATime
    /\ <>[](/\ pc = "done"
            /\ i = Len(urls)
            /\ Len(requests) = Len(urls)
            /\ repository_info.kind = "DataFrame"
            /\ exc = "none")

\* what holds of every such run: it comes to an end after Len(urls)
\* iterations, one request at a time, the table cell having run
C29_RunEnds ==
    /\ []OneRequestAtATime
    /\ <>[](/\ Ended
            /\ i = Len(urls)
            /\ Len(requests) = Len(urls)
            /\ repository_info.kind = "DataFrame")

====
